---- MODULE Spec2Model ----
(***************************************************************************)
(* dep-checker: the text -> text pipeline of src/dep-checker.js            *)
(*   getDepListingsFromText -> validateDepListingsAreUnique ->             *)
(*   createDepStructureFromDepListings -> expandDepStructure ->            *)
(*   depStructureToString                                                  *)
(* Strings are sequences of one-character strings; an identifier is the    *)
(* sequence of its characters.                                             *)
(***************************************************************************)
EXTENDS Naturals, Integers, Sequences, FiniteSets, TLC

VARIABLES
    pc,            \* position inside processDepsInText / expandDepStructure
    text,          \* the raw text handed to processDepsInText
    depListings,   \* the lines kept by getDepListingsFromText
    error,         \* message of the Error thrown, or NoError
    depStructure,  \* the one mapping object (inputDepStructure and outputDepStructure alias it)
    libraries,     \* Object.keys(inputDepStructure), taken once
    libIdx,        \* position of the outer forEach over Object.entries
    stack,         \* the chain of active recursiveAdd calls (innermost last)
    direct,        \* history: the structure as the Builder produced it
    response,      \* the ResponseData returned, or NoResponse
    returned,      \* history: what each finished call of expandDepStructure returned
    appInput,      \* App state "input"
    appOutput,     \* App state "output"
    appError,      \* App state "error"
    loading,       \* App state "loading"
    textInput,     \* App state "textInput"
    reads,         \* the parseFile promises not yet settled
    handler        \* which App handler is inside processDepsInText: "none", "text" or "file"

\* the state of App (src/App.js)
shellVars == <<appInput, appOutput, appError, loading, textInput, reads, handler>>

vars == <<pc, text, depListings, error, depStructure, libraries, libIdx, stack, direct, response,
          returned, shellVars>>

----------------------------------------------------------------------------
(* Generic sequence helpers (Array.prototype.includes / filter / indexOf)   *)

Range(s) == {s[i] : i \in 1..Len(s)}

Includes(s, x) == \E i \in 1..Len(s) : s[i] = x

\* Array.prototype.indexOf, 1-based; 0 when absent (JS: -1)
IndexOf(s, x) ==
    IF Includes(s, x) THEN CHOOSE i \in 1..Len(s) : s[i] = x /\ \A j \in 1..(i-1) : s[j] # x
    ELSE 0

NoDup(s) == \A i, j \in 1..Len(s) : i # j => s[i] # s[j]

\* Number of positions of s that hold x
RECURSIVE Count(_, _)
Count(s, x) ==
    IF s = <<>> THEN 0
    ELSE (IF s[1] = x THEN 1 ELSE 0) + Count(Tail(s), x)

IsPrefix(p, s) == Len(p) <= Len(s) /\ SubSeq(s, 1, Len(p)) = p

----------------------------------------------------------------------------
(* Values                                                                   *)

NoError == ""
NoResponse == <<>>

Str1(c) == <<c>>

\* the null of App's input and output (a string is a sequence of characters)
Null == <<"null">>

\* App as it is before any event: lines 25-29 of src/App.js
ShellInitial ==
    /\ appInput = Null
    /\ appOutput = Null
    /\ appError = NoError
    /\ loading = FALSE
    /\ textInput = <<>>
    /\ reads = {}
    /\ handler = "none"

\* Identifiers used when a structure is handed to expandDepStructure directly
KeyOrder == <<Str1("A"), Str1("B"), Str1("C"), Str1("D")>>
Leaves == {Str1("E"), Str1("F")}

----------------------------------------------------------------------------
(* Bounds                                                                   *)

MaxKeys == 3       \* keys of a structure handed to expandDepStructure
MaxEdges == 5      \* direct-dependency edges of such a structure
MaxDepth == 6      \* nested recursiveAdd calls the model follows
WideEdges == 6     \* edges of the four-key, two-leaf structures of SpecWide
MaxLines == 2      \* physical lines of an input text
MaxCalls == 2      \* calls of expandDepStructure on one structure

----------------------------------------------------------------------------
(* Structures that pass the Builder's validation                            *)

\* All duplicate-free non-empty sequences over ids of length <= n
DepLists(ids, n) ==
    {s \in UNION {[1..m -> ids] : m \in 1..n} : NoDup(s)}

Min(a, b) == IF a <= b THEN a ELSE b

RECURSIVE SumLen(_, _)
SumLen(s, ks) ==
    IF ks = <<>> THEN 0 ELSE Len(s[ks[1]]) + SumLen(s, Tail(ks))

\* What createDepStructureFromDepListings can return for the keys ks (in
\* listing order): each key with a non-empty duplicate-free list that does not
\* contain the key itself; at most maxDeps per list and maxEdges in all.
ValidStructures(ks, ids, maxDeps, maxEdges) ==
    {s \in [Range(ks) -> DepLists(ids, Min(maxDeps, maxEdges + 1 - Len(ks)))] :
        /\ \A k \in Range(ks) : ~Includes(s[k], k)
        /\ SumLen(s, ks) <= maxEdges}

----------------------------------------------------------------------------
(* expandDepStructure                                                       *)

\* mutant: the own-name test of line 97 dropped
NeverOwnName(lib, dep) == FALSE

\* line 97: "Ignore a cyclical dependency."
IsOwnName(lib, dep) == dep = lib

\* mutant: the includes test of line 98 dropped
PushAlways(out, dep) == Append(out, dep)

\* mutant: unshift for push
UnshiftIfMissing(out, dep) ==
    IF ~Includes(out, dep) THEN <<dep>> \o out ELSE out

\* lines 98-100: push dep unless the library's list already includes it
PushIfMissing(out, dep) ==
    IF ~Includes(out, dep) THEN Append(out, dep) ELSE out

\* mutant: the list of the first key consulted instead of the dep's
ConsultedDepsOfFirstKey(struct, orig, dep) == struct[libraries[1]]

\* line 105: inputDepStructure[libraries[index]]; inputDepStructure is the
\* same object as outputDepStructure (line 91), so this is the current list.
ConsultedDeps(struct, orig, dep) == struct[dep]

\* mutant: the filter tests the dep's own list, so nothing is ever left to add
DepsToAddFilteredByDep(struct, orig, lib, dep) ==
    SelectSeq(ConsultedDeps(struct, orig, dep), LAMBDA d : ~Includes(struct[dep], d))

\* mutant: the filter of lines 105-107 dropped
DepsToAddUnfiltered(struct, orig, lib, dep) == ConsultedDeps(struct, orig, dep)

\* lines 105-107: the dep's list filtered to what lib's list does not include
DepsToAdd(struct, orig, lib, dep) ==
    SelectSeq(ConsultedDeps(struct, orig, dep), LAMBDA d : ~Includes(struct[lib], d))

CurLib == libraries[libIdx]
Top == stack[Len(stack)]

\* line 115-116: the outer forEach calls recursiveAdd(lib, deps) for the next
\* entry; deps is the library's own array, and forEach fixes its range at the
\* length the array has now.
StartLib ==
    /\ pc = "expand"
    /\ stack = <<>>
    /\ libIdx <= Len(libraries)
    /\ stack' = <<[deps |-> depStructure[CurLib], i |-> 1]>>
    /\ UNCHANGED <<pc, text, depListings, error, depStructure, libraries, libIdx, direct, response>>
    /\ UNCHANGED <<returned, shellVars>>

\* lines 95-113: one call of the forEach callback of the innermost recursiveAdd
Visit ==
    /\ pc = "expand"
    /\ stack # <<>>
    /\ Top.i <= Len(Top.deps)
    /\ LET lib == CurLib
           dep == Top.deps[Top.i]
           advanced == [stack EXCEPT ![Len(stack)].i = Top.i + 1]
           struct1 == [depStructure EXCEPT ![lib] = PushIfMissing(depStructure[lib], dep)]
           index == IndexOf(libraries, dep)
           depsToAdd == IF index > 0 THEN DepsToAdd(struct1, direct, lib, libraries[index]) ELSE <<>>
       IN IF IsOwnName(lib, dep)
          THEN /\ stack' = advanced
               /\ UNCHANGED depStructure
          ELSE /\ depStructure' = struct1
               /\ IF Len(depsToAdd) > 0
                  THEN /\ Len(stack) < MaxDepth
                       /\ stack' = Append(advanced, [deps |-> depsToAdd, i |-> 1])
                  ELSE stack' = advanced
    /\ UNCHANGED <<pc, text, depListings, error, libraries, libIdx, direct, response>>
    /\ UNCHANGED <<returned, shellVars>>

\* the forEach of the innermost recursiveAdd is exhausted: the call returns
Return ==
    /\ pc = "expand"
    /\ stack # <<>>
    /\ Top.i > Len(Top.deps)
    /\ stack' = SubSeq(stack, 1, Len(stack) - 1)
    /\ libIdx' = IF Len(stack) = 1 THEN libIdx + 1 ELSE libIdx
    /\ UNCHANGED <<pc, text, depListings, error, depStructure, libraries, direct, response>>
    /\ UNCHANGED <<returned, shellVars>>

\* line 118: return outputDepStructure
Finish ==
    /\ pc = "expand"
    /\ stack = <<>>
    /\ libIdx > Len(libraries)
    /\ pc' = "expanded"
    /\ UNCHANGED <<text, depListings, error, depStructure, libraries, libIdx, stack, direct, response>>
    /\ returned' = Append(returned, depStructure)
    /\ UNCHANGED shellVars

NextExpand == StartLib \/ Visit \/ Return \/ Finish

\* expandDepStructure entered with structure s whose keys are, in order, ks
EnterExpand(s, ks) ==
    /\ pc = "expand"
    /\ depStructure = s
    /\ direct = s
    /\ libraries = ks
    /\ libIdx = 1
    /\ stack = <<>>

InitExpand ==
    /\ ShellInitial
    /\ returned = <<>>
    /\ text = <<>>
    /\ depListings = <<>>
    /\ error = NoError
    /\ response = NoResponse
    /\ \E n \in 1..MaxKeys :
         LET ks == SubSeq(KeyOrder, 1, n)
         IN \E s \in ValidStructures(ks, Range(KeyOrder), Len(KeyOrder), MaxEdges) :
               EnterExpand(s, ks)

SpecExpand == InitExpand /\ [][NextExpand]_vars

FairSpecExpand == SpecExpand /\ WF_vars(NextExpand)

InitWide ==
    /\ ShellInitial
    /\ returned = <<>>
    /\ text = <<>>
    /\ depListings = <<>>
    /\ error = NoError
    /\ response = NoResponse
    /\ \E s \in ValidStructures(KeyOrder, Range(KeyOrder) \cup Leaves, 2, WideEdges) :
          EnterExpand(s, KeyOrder)

SpecWide == InitWide /\ [][NextExpand]_vars

----------------------------------------------------------------------------
(* Reachability over the direct edges, and the immutable-copy reference     *)

Successors(struct, S) == UNION {Range(struct[k]) : k \in S \cap DOMAIN struct}

RECURSIVE Closure(_, _)
Closure(struct, S) ==
    LET n == S \cup Successors(struct, S)
    IN IF n = S THEN S ELSE Closure(struct, n)

\* identifiers reachable from L by one or more direct-dependency edges
Reachable(struct, L) == Closure(struct, Range(struct[L]))

OnCycle(struct, L) == L \in Reachable(struct, L)

\* The expander of spec section 4.3 read literally: every consulted list is
\* taken from orig, an immutable copy of the direct edges.
RECURSIVE RefAdd(_, _, _, _)
RefAdd(orig, lib, out, deps) ==
    IF deps = <<>> THEN out
    ELSE LET dep == Head(deps)
             out1 == IF Includes(out, dep) THEN out ELSE Append(out, dep)
             toAdd == IF dep \in DOMAIN orig
                      THEN SelectSeq(orig[dep], LAMBDA d : ~Includes(out1, d))
                      ELSE <<>>
             out2 == IF toAdd # <<>> THEN RefAdd(orig, lib, out1, toAdd) ELSE out1
         IN IF dep = lib THEN RefAdd(orig, lib, out, Tail(deps))
            ELSE RefAdd(orig, lib, out2, Tail(deps))

RefExpand(orig) == [L \in DOMAIN orig |-> RefAdd(orig, L, orig[L], orig[L])]

Expanded == pc = "expanded"

A == Str1("A")
B == Str1("B")
C == Str1("C")
D == Str1("D")
E == Str1("E")
F == Str1("F")

----------------------------------------------------------------------------
(* Claims about expandDepStructure                                          *)

\* C1 (as stated): after expandDepStructure, every identifier reachable from a
\* key L by one or more direct edges occurs exactly once in L's sequence.
C1_EveryReachableOnce ==
    Expanded =>
        \A L \in DOMAIN direct :
            \A x \in Reachable(direct, L) : Count(depStructure[L], x) = 1

\* C1 (amended): after expandDepStructure, every identifier other than L itself
\* that is reachable from a key L by one or more direct edges occurs exactly
\* once in L's sequence.
C1_EveryOtherReachableOnce ==
    Expanded =>
        \A L \in DOMAIN direct :
            \A x \in Reachable(direct, L) \ {L} : Count(depStructure[L], x) = 1

\* an expansion has finished in which some key lies on a cycle and has gained
\* an identifier it does not depend on directly
C1_Witness ==
    /\ Expanded
    /\ \E L \in DOMAIN direct :
          /\ OnCycle(direct, L)
          /\ \E x \in Range(depStructure[L]) : ~Includes(direct[L], x)

\* C2: the final structure equals, element for element, what the reference
\* expander reading an immutable copy of the direct edges produces.
C2_EqualsImmutableReference ==
    Expanded => depStructure = RefExpand(direct)

\* C3: expandDepStructure terminates on every validated structure.
C3_ExpandTerminates == <>Expanded

\* an expansion has finished on the 3-cycle A -> B -> C -> A
C3_Witness ==
    /\ Expanded
    /\ direct = (A :> <<B>>) @@ (B :> <<C>>) @@ (C :> <<A>>)

\* C4: in every state of an expansion no library's name is in its own
\* sequence; the 2-cycle A -> B, B -> A ends as A:[B], B:[A].
C4_OwnNameAbsent ==
    /\ \A L \in DOMAIN depStructure : ~Includes(depStructure[L], L)
    /\ (Expanded /\ direct = (A :> <<B>>) @@ (B :> <<A>>)) => depStructure = direct

\* an expansion has finished for a structure with a key on an indirect cycle
C4_Witness ==
    /\ Expanded
    /\ \E L \in DOMAIN direct : OnCycle(direct, L) /\ Len(depStructure[L]) > Len(direct[L])

\* C5: every identifier in a key's sequence, at any time, is reachable from
\* that key over the direct edges of the structure the Builder produced.
C5_OnlyReachable ==
    \A L \in DOMAIN depStructure :
        \A x \in Range(depStructure[L]) : x \in Reachable(direct, L)

\* an expansion has finished that appended an indirect dependency
C5_Witness ==
    /\ Expanded
    /\ \E L \in DOMAIN direct : Len(depStructure[L]) > Len(direct[L])

----------------------------------------------------------------------------
(* Characters and strings                                                   *)

UpperCase == {"A","B","C","D","E","F","G","H","I","J","K","L","M",
              "N","O","P","Q","R","S","T","U","V","W","X","Y","Z"}
LowerCase == {"a","b","c","d","e","f","g","h","i","j","k","l","m",
              "n","o","p","q","r","s","t","u","v","w","x","y","z"}
Digits == {"0","1","2","3","4","5","6","7","8","9"}

\* the regular-expression class \s, as far as the inputs use it
IsWhitespace(c) == c \in {" ", "\t", "\r", "\n"}

\* [A-Za-z_$@]
IsNameStart(c) == c \in UpperCase \cup LowerCase \cup {"_", "$", "@"}

\* [A-Za-z0-9@$_-]
IsNameChar(c) == c \in UpperCase \cup LowerCase \cup Digits \cup {"@", "$", "_", "-"}

\* [A-Za-z0-9@$ _-] : the class of the dependency part, which holds a space
IsDepsChar(c) == c \in UpperCase \cup LowerCase \cup Digits \cup {"@", "$", " ", "_", "-"}

\* the literal " depends on "
DependsOn == <<" ", "d", "e", "p", "e", "n", "d", "s", " ", "o", "n", " ">>

\* String.prototype.includes
StrIncludes(str, pat) ==
    \E i \in 1..(Len(str) + 1 - Len(pat)) : SubSeq(str, i, i + Len(pat) - 1) = pat

\* Array.prototype.join on strings
RECURSIVE Join(_, _)
Join(parts, sep) ==
    IF parts = <<>> THEN <<>>
    ELSE IF Len(parts) = 1 THEN parts[1]
    ELSE parts[1] \o sep \o Join(Tail(parts), sep)

\* String.prototype.split(" "): the pieces between single separator characters
RECURSIVE SplitOn(_, _)
SplitOn(str, c) ==
    LET i == IndexOf(str, c)
    IN IF i = 0 THEN <<str>>
       ELSE <<SubSeq(str, 1, i - 1)>> \o SplitOn(SubSeq(str, i + 1, Len(str)), c)

\* line 28: text.split(/\r?\n/)
RECURSIVE SplitLines(_)
SplitLines(str) ==
    LET i == IndexOf(str, "\n")
    IN IF i = 0 THEN <<str>>
       ELSE LET stop == IF i > 1 /\ str[i - 1] = "\r" THEN i - 2 ELSE i - 1
            IN <<SubSeq(str, 1, stop)>> \o SplitLines(SubSeq(str, i + 1, Len(str)))

\* line 29: line.replace(/\s+/g, " ")
RECURSIVE CollapseWhitespace(_)
CollapseWhitespace(str) ==
    IF str = <<>> THEN <<>>
    ELSE IF IsWhitespace(str[1])
         THEN IF Len(str) > 1 /\ IsWhitespace(str[2])
              THEN CollapseWhitespace(Tail(str))
              ELSE <<" ">> \o CollapseWhitespace(Tail(str))
         ELSE <<str[1]>> \o CollapseWhitespace(Tail(str))

\* String.prototype.trim
RECURSIVE Trim(_)
Trim(str) ==
    IF str = <<>> THEN <<>>
    ELSE IF IsWhitespace(str[1]) THEN Trim(Tail(str))
    ELSE IF IsWhitespace(str[Len(str)]) THEN Trim(SubSeq(str, 1, Len(str) - 1))
    ELSE str

\* line 29: the map callback
NormalizeLine(line) == Trim(CollapseWhitespace(line))

MapNormalize(lines) == [i \in 1..Len(lines) |-> NormalizeLine(lines[i])]

\* [...new Set(arr)]: first occurrences, in order
RECURSIVE Dedupe(_)
Dedupe(arr) ==
    IF arr = <<>> THEN <<>>
    ELSE LET front == Dedupe(SubSeq(arr, 1, Len(arr) - 1))
             last == arr[Len(arr)]
         IN IF Includes(front, last) THEN front ELSE Append(front, last)

----------------------------------------------------------------------------
(* The Extractor, Builder and Formatter                                     *)

MsgNoDeps == "Invalid input: No dependencies listed."
MsgFormat == "Invalid input: Please check the dependency list formatting."
MsgDuplicate == "Invalid dependency data: There is a duplicate library dependency listing."
MsgSelf == "Invalid dependency data: A library directly depends on itself."

\* lines 9-12: /^[A-Za-z_$@][A-Za-z0-9@$_-]* depends on [A-Za-z_$@][A-Za-z0-9@$ _-]*$/
\* k is the length of what the first two classes match.
IsDepListingLine(line) ==
    \E k \in 1..Len(line) :
        /\ IsNameStart(line[1])
        /\ \A i \in 2..k : IsNameChar(line[i])
        /\ Len(line) >= k + Len(DependsOn) + 1
        /\ SubSeq(line, k + 1, k + Len(DependsOn)) = DependsOn
        /\ IsNameStart(line[k + Len(DependsOn) + 1])
        /\ \A i \in (k + Len(DependsOn) + 2)..Len(line) : IsDepsChar(line[i])

\* lines 27-30: split, normalize, filter
ListingLines(str) == SelectSeq(MapNormalize(SplitLines(str)), IsDepListingLine)

\* mutant: the keyword test applied to the whitespace-collapsed text
HasKeywordNormalized(str) == StrIncludes(CollapseWhitespace(str), DependsOn)

\* line 24: the keyword test on the raw text
HasKeyword(str) == StrIncludes(str, DependsOn)

\* lines 45-47: line.substring(0, line.indexOf(" "))
DefinedLibrary(line) == SubSeq(line, 1, IndexOf(line, " ") - 1)

DefinedLibraries(depList) == [i \in 1..Len(depList) |-> DefinedLibrary(depList[i])]

\* mutant: whole lines compared instead of the defined names
HasDuplicateLine(depList) == Cardinality(Range(depList)) # Len(depList)

\* line 48: new Set(definedLibraries).size !== definedLibraries.length
HasDuplicateLibrary(depList) ==
    Cardinality(Range(DefinedLibraries(depList))) # Len(depList)

\* lines 67-69
LibraryName(line) == SplitOn(line, " ")[1]
Dependencies(line) ==
    LET words == SplitOn(line, " ")
    IN Dedupe(SubSeq(words, 4, Len(words)))

\* mutant: words.slice(4) for words.slice(3), so the first dependency is not looked at
DependsOnItselfFromSecond(line) ==
    LET words == SplitOn(line, " ")
    IN Includes(SubSeq(words, 5, Len(words)), LibraryName(line))

\* line 70
DependsOnItself(line) == Includes(Dependencies(line), LibraryName(line))

\* the name of the accessor every plain object inherits from Object.prototype
ProtoName == <<"_", "_", "p", "r", "o", "t", "o", "_", "_">>

\* line 75: depStructure[libraryName] = dependencies on the plain object of
\* line 65 creates an own property, except for the inherited accessor's name:
\* that assignment replaces the object's prototype and adds no key.
CreatesOwnProperty(name) == name # ProtoName

\* lines 65-77: the object the forEach fills; a later assignment to a key replaces
\* the value and keeps the key's place
StructureOf(listings) ==
    [name \in {n \in {LibraryName(listings[i]) : i \in 1..Len(listings)} : CreatesOwnProperty(n)} |->
        LET last == CHOOSE i \in 1..Len(listings) :
                       /\ LibraryName(listings[i]) = name
                       /\ \A j \in (i + 1)..Len(listings) : LibraryName(listings[j]) # name
        IN Dependencies(listings[last])]

\* Object.keys of that object: the own property names in order of first definition
KeysOf(listings) ==
    SelectSeq(Dedupe([i \in 1..Len(listings) |-> LibraryName(listings[i])]), CreatesOwnProperty)

\* lines 129-133
RenderEntry(lib, deps) == lib \o DependsOn \o Join(deps, <<" ">>)

DepStructureToString(keys, depData) ==
    Join([i \in 1..Len(keys) |-> RenderEntry(keys[i], depData[keys[i]])], <<"\n">>)

\* lines 23-35 (processDepsInText line 153)
Extract ==
    /\ pc = "extract"
    /\ IF ~HasKeyword(text)
       THEN /\ error' = MsgNoDeps
            /\ pc' = "failed"
            /\ UNCHANGED depListings
       ELSE IF Len(ListingLines(text)) < 1
       THEN /\ error' = MsgFormat
            /\ pc' = "failed"
            /\ UNCHANGED depListings
       ELSE /\ depListings' = ListingLines(text)
            /\ pc' = "validate"
            /\ UNCHANGED error
    /\ UNCHANGED <<text, depStructure, libraries, libIdx, stack, direct, response>>
    /\ UNCHANGED <<returned, shellVars>>

\* lines 44-53 (processDepsInText line 154)
Validate ==
    /\ pc = "validate"
    /\ IF HasDuplicateLibrary(depListings)
       THEN error' = MsgDuplicate /\ pc' = "failed"
       ELSE pc' = "build" /\ UNCHANGED error
    /\ UNCHANGED <<text, depListings, depStructure, libraries, libIdx, stack, direct, response>>
    /\ UNCHANGED <<returned, shellVars>>

\* lines 64-78 (processDepsInText line 155), then entry into expandDepStructure
Build ==
    /\ pc = "build"
    /\ IF \E i \in 1..Len(depListings) : DependsOnItself(depListings[i])
       THEN /\ error' = MsgSelf
            /\ pc' = "failed"
            /\ UNCHANGED <<depStructure, direct, libraries>>
       ELSE /\ depStructure' = StructureOf(depListings)
            /\ direct' = StructureOf(depListings)
            /\ libraries' = KeysOf(depListings)
            /\ pc' = "expand"
            /\ UNCHANGED error
    /\ UNCHANGED <<text, depListings, libIdx, stack, response>>
    /\ UNCHANGED <<returned, shellVars>>

\* lines 157-160
Respond ==
    /\ pc = "expanded"
    /\ response' = <<[input |-> Join(depListings, <<"\n">>),
                     output |-> DepStructureToString(libraries, depStructure)]>>
    /\ pc' = "done"
    /\ UNCHANGED <<text, depListings, error, depStructure, libraries, libIdx, stack, direct>>
    /\ UNCHANGED <<returned, shellVars>>

Next == Extract \/ Validate \/ Build \/ NextExpand \/ Respond

----------------------------------------------------------------------------
(* Input texts                                                              *)

Num == Str1("1")
Depends == <<"d", "e", "p", "e", "n", "d", "s">>
On == <<"o", "n">>

NameTokens == {A, B}
DepTokenLists == {<<A>>, <<B>>, <<B, C>>, <<C, C>>, <<C, Num>>, <<Num>>}

\* how a line is spaced and terminated
Tight == [gap |-> <<" ">>, inner |-> <<" ">>, eol |-> <<"\n">>]
WideOuter == [gap |-> <<" ", " ">>, inner |-> <<" ">>, eol |-> <<"\r", "\n">>]
WideInner == [gap |-> <<" ">>, inner |-> <<" ", " ">>, eol |-> <<"\n">>]
Spacings == {Tight, WideOuter, WideInner}

RawListing(name, deps, sp) ==
    name \o sp.gap \o Depends \o sp.inner \o On \o sp.gap \o Join(deps, sp.gap)

PhysicalLines ==
    {[chars |-> RawListing(n, d, sp), eol |-> sp.eol] :
        n \in NameTokens, d \in DepTokenLists, sp \in Spacings}
    \cup {[chars |-> <<>>, eol |-> <<"\n">>],
          [chars |-> A \o DependsOn, eol |-> <<"\n">>],
          [chars |-> A \o <<" ">> \o B \o DependsOn \o C, eol |-> <<"\n">>],
          [chars |-> RawListing(ProtoName, <<A>>, Tight), eol |-> <<"\n">>]}

RECURSIVE TextOf(_)
TextOf(ls) ==
    IF Len(ls) = 1 THEN ls[1].chars
    ELSE ls[1].chars \o ls[1].eol \o TextOf(Tail(ls))

EmptyStructure == [k \in {} |-> <<>>]

Init ==
    /\ ShellInitial
    /\ returned = <<>>
    /\ pc = "extract"
    /\ text \in {TextOf(ls) : ls \in UNION {[1..n -> PhysicalLines] : n \in 1..MaxLines}}
    /\ depListings = <<>>
    /\ error = NoError
    /\ depStructure = EmptyStructure
    /\ direct = EmptyStructure
    /\ libraries = <<>>
    /\ libIdx = 1
    /\ stack = <<>>
    /\ response = NoResponse

Spec == Init /\ [][Next]_vars

----------------------------------------------------------------------------
(* App (src/App.js): the shell around processDepsInText                     *)

MsgNoFile == "Whoops. Please upload a text file."
MsgParse == "There was an error parsing the file."
MsgTooShort == "Please enter at least one dependency listing in the text area field."

\* line 64: textInput.length < 14
MinTextLength == 14

\* what the user types or uploads
ShortText == A
GoodText == RawListing(A, <<B>>, Tight) \o <<"\n">> \o RawListing(B, <<C>>, Tight)
SelfText == RawListing(A, <<A>>, Tight)
AppTexts == {ShortText, GoodText, SelfText}

\* fileInput.current.files[0]: undefined, or a file parseFile resolves with
\* its content, or a file parseFile rejects
NoFile == [chosen |-> FALSE, readable |-> FALSE, content |-> <<>>]
Files ==
    {[chosen |-> TRUE, readable |-> TRUE, content |-> t] : t \in AppTexts}
        \cup {[chosen |-> TRUE, readable |-> FALSE, content |-> <<>>]}

Idle == pc = "idle"

\* processDepsInText has no call in progress: its locals do not exist
CoreIdle ==
    /\ text = <<>>
    /\ depListings = <<>>
    /\ error = NoError
    /\ depStructure = EmptyStructure
    /\ direct = EmptyStructure
    /\ libraries = <<>>
    /\ libIdx = 1
    /\ stack = <<>>
    /\ response = NoResponse
    /\ returned = <<>>

coreLocals == <<depListings, error, depStructure, libraries, libIdx, stack, direct, response, returned>>

\* line 31
HandleChange ==
    /\ Idle
    /\ \E value \in AppTexts \ {textInput} : textInput' = value
    /\ UNCHANGED <<pc, text, coreLocals, appInput, appOutput, appError, loading, reads, handler>>

\* lines 62-70; reset() is lines 32-36; the call of line 69 enters
\* processDepsInText (line 39)
OnTextSubmit ==
    /\ Idle
    /\ appInput' = Null
    /\ appOutput' = Null
    /\ IF Len(textInput) < MinTextLength
       THEN /\ appError' = MsgTooShort
            /\ UNCHANGED <<pc, text, handler>>
       ELSE /\ appError' = NoError
            /\ text' = textInput
            /\ pc' = "extract"
            /\ handler' = "text"
    /\ UNCHANGED <<coreLocals, loading, textInput, reads>>

\* lines 46-52; the submit button is disabled while loading (line 138)
OnFileSubmit ==
    /\ Idle
    /\ ~loading
    /\ appInput' = Null
    /\ appOutput' = Null
    /\ \E file \in {NoFile} \cup Files :
         IF ~file.chosen
         THEN /\ appError' = MsgNoFile
              /\ UNCHANGED <<loading, reads>>
         ELSE /\ appError' = NoError
              /\ loading' = TRUE
              /\ reads' = reads \cup {file}
    /\ UNCHANGED <<pc, text, coreLocals, textInput, handler>>

\* lines 53-54: the promise resolves and its callback calls handleText, which
\* enters processDepsInText (line 39)
ReadResolved ==
    /\ Idle
    /\ \E file \in reads :
         /\ file.readable
         /\ reads' = reads \ {file}
         /\ text' = file.content
    /\ pc' = "extract"
    /\ handler' = "file"
    /\ UNCHANGED <<coreLocals, appInput, appOutput, appError, loading, textInput>>

\* lines 57-60
ReadRejected ==
    /\ Idle
    /\ \E file \in reads :
         /\ ~file.readable
         /\ reads' = reads \ {file}
    /\ appError' = MsgParse
    /\ loading' = FALSE
    /\ UNCHANGED <<pc, text, coreLocals, appInput, appOutput, textInput, handler>>

\* lines 40-44: processDepsInText has returned or thrown and its locals are
\* gone; then, in the promise's callback, line 55
HandleTextEnd ==
    /\ pc \in {"done", "failed"}
    /\ handler # "none"
    /\ IF pc = "done"
       THEN /\ appInput' = response[1].input
            /\ appOutput' = response[1].output
            /\ UNCHANGED appError
       ELSE /\ appError' = error
            /\ UNCHANGED <<appInput, appOutput>>
    /\ loading' = IF handler = "file" THEN FALSE ELSE loading
    /\ handler' = "none"
    /\ pc' = "idle"
    /\ text' = <<>>
    /\ depListings' = <<>>
    /\ error' = NoError
    /\ depStructure' = EmptyStructure
    /\ direct' = EmptyStructure
    /\ libraries' = <<>>
    /\ libIdx' = 1
    /\ stack' = <<>>
    /\ response' = NoResponse
    /\ returned' = <<>>
    /\ UNCHANGED <<textInput, reads>>

InitApp ==
    /\ ShellInitial
    /\ pc = "idle"
    /\ CoreIdle

NextApp ==
    \/ HandleChange
    \/ OnTextSubmit
    \/ OnFileSubmit
    \/ ReadResolved
    \/ ReadRejected
    \/ Next
    \/ HandleTextEnd

SpecApp == InitApp /\ [][NextApp]_vars

----------------------------------------------------------------------------
(* Claims about the Extractor and the Builder                               *)

\* the Identifier grammar [A-Za-z_$@][A-Za-z0-9@$_-]*
IsIdentifier(tok) ==
    /\ Len(tok) >= 1
    /\ IsNameStart(tok[1])
    /\ \A i \in 2..Len(tok) : IsNameChar(tok[i])

Words(line) == SplitOn(line, " ")
NameToken(line) == Words(line)[1]
DepTokens(line) == SubSeq(Words(line), 4, Len(Words(line)))

\* the raw text holds the twelve characters " depends on " in a row
RawHasLiteral ==
    \E i \in 1..Len(text) :
        \A j \in 1..Len(DependsOn) :
            i + j - 1 <= Len(text) /\ text[i + j - 1] = DependsOn[j]

\* some physical line matches the listing pattern once normalized
SomeLineConforms ==
    \E i \in 1..Len(SplitLines(text)) : IsDepListingLine(NormalizeLine(SplitLines(text)[i]))

Extracted == pc # "extract"
ExtractorFailed == error \in {MsgNoDeps, MsgFormat}
NothingProduced ==
    /\ pc = "failed"
    /\ depStructure = EmptyStructure
    /\ libraries = <<>>
    /\ response = NoResponse

\* C6: the name and every dependency token of every kept line satisfy the
\* Identifier grammar.
C6_KeptTokensAreIdentifiers ==
    \A i \in 1..Len(depListings) :
        /\ IsIdentifier(NameToken(depListings[i]))
        /\ \A t \in Range(DepTokens(depListings[i])) : IsIdentifier(t)

\* C7: when at least one physical line conforms after normalization, the
\* extraction raises no error.
C7_NoErrorWhenALineConforms ==
    (Extracted /\ SomeLineConforms) => ~ExtractorFailed

SomeLibraryDefinedTwice ==
    \E i, j \in 1..Len(depListings) :
        i # j /\ NameToken(depListings[i]) = NameToken(depListings[j])

\* C9: the duplicate error is raised exactly when two kept listings define the
\* same library, and then processing has failed.
C9_DuplicateExactly ==
    (pc \notin {"extract", "validate"}) =>
        /\ (error = MsgDuplicate) <=> SomeLibraryDefinedTwice
        /\ (error = MsgDuplicate) => NothingProduced

\* processing has failed on two different kept listings of one library
C9_Witness ==
    /\ error = MsgDuplicate
    /\ Len(depListings) = 2
    /\ depListings[1] # depListings[2]

\* some kept listing names its own library among its dependencies
SomeListingDependsOnItself ==
    \E i \in 1..Len(depListings) :
        NameToken(depListings[i]) \in Range(DepTokens(depListings[i]))

----------------------------------------------------------------------------
(* Claims about the Formatter's output                                      *)

Done == pc = "done"

\* the lines of the expanded output ("" has none)
OutputLines ==
    IF response[1].output = <<>> THEN <<>> ELSE SplitOn(response[1].output, "\n")

\* C11: the expanded output has exactly one line per kept listing, the i-th
\* line being for the library the i-th kept listing defines.
C11_OneLinePerListing ==
    Done =>
        /\ Len(OutputLines) = Len(depListings)
        /\ \A i \in 1..Len(OutputLines) :
              NameToken(OutputLines[i]) = NameToken(depListings[i])

----------------------------------------------------------------------------
(* expandDepStructure applied to its own result                             *)

\* expandDepStructure(expandDepStructure(s)): the object the last call
\* returned is handed to a new call; Object.keys gives the same keys.
ExpandAgain ==
    /\ pc = "expanded"
    /\ Len(returned) < MaxCalls
    /\ pc' = "expand"
    /\ libraries' = libraries
    /\ libIdx' = 1
    /\ stack' = <<>>
    /\ UNCHANGED <<text, depListings, error, depStructure, direct, response, returned, shellVars>>

SpecTwice == InitExpand /\ [][NextExpand \/ ExpandAgain]_vars

\* C12: once expandDepStructure has returned, a further call on the result
\* appends nothing (the structure stays what the first call returned in every
\* state of the further call) and returns an equal structure.
C12_ExpansionIdempotent ==
    Len(returned) >= 1 =>
        /\ depStructure = returned[1]
        /\ \A i \in 1..Len(returned) : returned[i] = returned[1]

\* a second call has returned for a structure the first call had extended
C12_Witness ==
    /\ Len(returned) = 2
    /\ returned[1] # direct

\* the listing that defines library L
ListingOf(L) ==
    depListings[CHOOSE i \in 1..Len(depListings) : NameToken(depListings[i]) = L]

\* d holds each identifier of tokens once, in the order of first occurrence
IsFirstOccurrences(d, tokens) ==
    /\ NoDup(d)
    /\ Range(d) = Range(tokens)
    /\ \A i, j \in 1..Len(d) : i < j => IndexOf(tokens, d[i]) < IndexOf(tokens, d[j])

\* C14: in every state each library's sequence is duplicate-free and begins
\* with its direct-dependency sequence as the Builder made it (the tokens of
\* its listing, each once, in first-occurrence order), and every step keeps
\* each sequence as a prefix of the next one.
C14_AppendOnly ==
    /\ [](\A L \in DOMAIN depStructure :
             /\ NoDup(depStructure[L])
             /\ IsPrefix(direct[L], depStructure[L])
             /\ depListings # <<>> => IsFirstOccurrences(direct[L], DepTokens(ListingOf(L))))
    /\ [][\A L \in DOMAIN depStructure : IsPrefix(depStructure[L], depStructure'[L])]_vars

\* an expansion has finished in which a sequence has grown, for a text with a
\* listing that repeats a dependency
C14_Witness ==
    /\ Expanded
    /\ \E L \in DOMAIN direct : Len(depStructure[L]) > Len(direct[L])
    /\ \E i \in 1..Len(depListings) : ~NoDup(DepTokens(depListings[i]))

----------------------------------------------------------------------------
(* Claims about App                                                         *)

\* C13: whenever App is between events, not loading, and its error is
\* non-null, both its input and its output are null.
C13_NoFailureWithInputOutput ==
    (Idle /\ ~loading /\ appError # NoError) => (appInput = Null /\ appOutput = Null)

====
